---- MODULE Spec2Model ----
(***************************************************************************)
(* Model of the arena tree of dir/src/tree.rs: Tree<T> with its handles    *)
(* (NodeId), the mutating operations set_root / add_child / get_mut, the   *)
(* accessors get / parent / children, the traversals dfs / bfs and the     *)
(* rendering fmt_tree.                                                     *)
(*                                                                         *)
(* NodeId(i) is the integer i (0-based, as in the source); slot i of the   *)
(* Vec `nodes` is element i+1 of the sequence `nodes`.  Option<X> is a     *)
(* sequence of length 0 (None) or 1 (Some(x)).  A String is a sequence of  *)
(* characters, each character a one-character string; the box-drawing      *)
(* characters are written by their code points.                            *)
(*                                                                         *)
(* `walk` is the state of pathfinder_app (main and build_tree_from_path):  *)
(* the filesystem it reads, its position and its call stack.  It stays     *)
(* idle in the specifications of the tree alone.                           *)
(***************************************************************************)
EXTENDS Integers, Sequences, FiniteSets, TLC

VARIABLES nodes, root, issued, last, ret, walk

\* the tree, the calls made on it and their results
vars == <<nodes, root, issued, last, ret>>

\* the tree and the directory walk of pathfinder_app that fills it
wvars == <<nodes, root, issued, last, ret, walk>>

\* ---------------------------------------------------------------- bounds
MaxNodes == 5

\* payloads (T = &str / String) the callers pass in
Values == { <<"a">>, <<"b", "1">> }

\* handles the callers pass in: every live one and at least one dead one
Handles == 0 .. MaxNodes

\* ------------------------------------------------------------ Option<X>
None == << >>

Some(x) == << x >>

is_none(o) == Len(o) = 0

is_some(o) == Len(o) = 1

unwrap(o) == o[1]

\* ------------------------------------------------------------ characters
BoxUpRight == "U+2514"

BoxVertRight == "U+251C"

BoxHoriz == "U+2500"

BoxVert == "U+2502"

Space == " "

Newline == "\n"

ConnLast == << BoxUpRight, BoxHoriz, BoxHoriz, Space >>

ConnMid == << BoxVertRight, BoxHoriz, BoxHoriz, Space >>

PadLast == << Space, Space, Space, Space >>

PadMid == << BoxVert, Space, Space, Space >>

\* ----------------------------------------------------------------- Node
Node(data, parent, children) ==
  [data |-> data, parent |-> parent, children |-> children]

\* self.nodes.len()
len(ns) == Len(ns)

\* self.nodes[id.0]: the slot of a handle (an Option<Node<T>>)
slot(ns, id) == ns[id + 1]

\* mutant: the range test is off by one
assert_exists_off_by_one(ns, id) == id <= len(ns)

\* the index is in range and the slot is Some
assert_exists(ns, id) == id < len(ns) /\ is_some(slot(ns, id))

\* Tree::node / Tree::node_mut: panics exactly when the index is out of
\* range or the slot is None
node_faults(ns, id) == ~ (id < len(ns)) \/ is_none(slot(ns, id))

node(ns, id) == unwrap(slot(ns, id))

\* Tree::alloc: push Some(node); the handle is the previous length
alloc_id(ns) == len(ns)

\* mutant: the slot is pushed twice
alloc_twice(ns, n) == Append(Append(ns, Some(n)), Some(n))

\* mutant: the node is stored without its parent link
alloc_orphan(ns, n) == Append(ns, Some([n EXCEPT !.parent = None]))

alloc(ns, n) == Append(ns, Some(n))

\* mutant: the child is pushed twice
push_child_twice(ns, parent, child) ==
  [ns EXCEPT ![parent + 1] =
     Some([node(ns, parent) EXCEPT !.children = Append(Append(@, child), child)])]

\* mutant: the child is never linked to its parent
push_child_none(ns, parent, child) == ns

\* mutant: the child is inserted at the front of the list
push_child_front(ns, parent, child) ==
  [ns EXCEPT ![parent + 1] =
     Some([node(ns, parent) EXCEPT !.children = << child >> \o @])]

\* mutant: the children list is assigned instead of pushed to
push_child_overwrite(ns, parent, child) ==
  [ns EXCEPT ![parent + 1] =
     Some([node(ns, parent) EXCEPT !.children = << child >>])]

\* node_mut(parent).children.push(child)
push_child(ns, parent, child) ==
  [ns EXCEPT ![parent + 1] =
     Some([node(ns, parent) EXCEPT !.children = Append(@, child)])]

\* mutant: the node is rebuilt around the new payload and loses its children
write_data_rebuild(ns, id, v) ==
  [ns EXCEPT ![id + 1] = Some(Node(v, node(ns, id).parent, << >>))]

\* *get_mut(id) = v
write_data(ns, id, v) ==
  [ns EXCEPT ![id + 1] = Some([node(ns, id) EXCEPT !.data = v])]

\* ------------------------------------------------------------- accessors
get(ns, id) == node(ns, id).data

parent(ns, id) == node(ns, id).parent

children(ns, id) == node(ns, id).children

\* ------------------------------------------------- results of operations
NoRet == [id |-> None, val |-> None, seq |-> << >>, out |-> << >>, calls |-> << >>]

Call(op, id, val, fault) == [op |-> op, id |-> id, val |-> val, fault |-> fault]

\* the walk of pathfinder_app, not started
IdleWalk ==
  [pc |-> "idle", fs |-> << >>, arg |-> << >>, stack |-> << >>,
   visited |-> { }, errlen |-> 0]

\* -------------------------------------------------------------- Tree::new
Init ==
  /\ nodes = << >>
  /\ root = None
  /\ issued = << >>
  /\ last = Call("new", None, None, FALSE)
  /\ ret = NoRet
  /\ walk = IdleWalk

\* ---------------------------------------------------------- Tree::set_root
\* mutant: the assert is missing, a second call replaces the root
SetRoot_no_assert(v) ==
  LET id == alloc_id(nodes) IN
  /\ nodes' = alloc(nodes, Node(v, None, << >>))
  /\ root' = Some(id)
  /\ issued' = Append(issued, [op |-> "set_root", ret |-> id])
  /\ last' = Call("set_root", None, Some(v), FALSE)
  /\ ret' = [NoRet EXCEPT !.id = Some(id)]

\* mutant: the handle is returned but not stored as the root
SetRoot_forget_root(v) ==
  IF ~ is_none(root)
  THEN /\ last' = Call("set_root", None, Some(v), TRUE)
       /\ ret' = NoRet
       /\ UNCHANGED <<nodes, root, issued>>
  ELSE LET id == alloc_id(nodes) IN
       /\ nodes' = alloc(nodes, Node(v, None, << >>))
       /\ root' = root
       /\ issued' = Append(issued, [op |-> "set_root", ret |-> id])
       /\ last' = Call("set_root", None, Some(v), FALSE)
       /\ ret' = [NoRet EXCEPT !.id = Some(id)]

SetRoot(v) ==
  IF ~ is_none(root)
  THEN \* assert!(self.root.is_none()) fails
       /\ last' = Call("set_root", None, Some(v), TRUE)
       /\ ret' = NoRet
       /\ UNCHANGED <<nodes, root, issued>>
  ELSE LET id == alloc_id(nodes) IN
       /\ nodes' = alloc(nodes, Node(v, None, << >>))
       /\ root' = Some(id)
       /\ issued' = Append(issued, [op |-> "set_root", ret |-> id])
       /\ last' = Call("set_root", None, Some(v), FALSE)
       /\ ret' = [NoRet EXCEPT !.id = Some(id)]

\* --------------------------------------------------------- Tree::add_child
AddChild(p, v) ==
  IF ~ assert_exists(nodes, p)
  THEN /\ last' = Call("add_child", Some(p), Some(v), TRUE)
       /\ ret' = NoRet
       /\ UNCHANGED <<nodes, root, issued>>
  ELSE LET child == alloc_id(nodes) IN
       /\ nodes' = push_child(alloc(nodes, Node(v, Some(p), << >>)), p, child)
       /\ issued' = Append(issued, [op |-> "add_child", ret |-> child])
       /\ last' = Call("add_child", Some(p), Some(v), FALSE)
       /\ ret' = [NoRet EXCEPT !.id = Some(child)]
       /\ UNCHANGED root

\* ----------------------------------------------------------- Tree::get_mut
\* the caller writes v through the returned reference
GetMut(id, v) ==
  IF node_faults(nodes, id)
  THEN /\ last' = Call("get_mut", Some(id), Some(v), TRUE)
       /\ ret' = NoRet
       /\ UNCHANGED <<nodes, root, issued>>
  ELSE /\ nodes' = write_data(nodes, id, v)
       /\ last' = Call("get_mut", Some(id), Some(v), FALSE)
       /\ ret' = NoRet
       /\ UNCHANGED <<root, issued>>

\* --------------------------------------------------------------- Tree::get
Get(id) ==
  /\ IF node_faults(nodes, id)
     THEN last' = Call("get", Some(id), None, TRUE) /\ ret' = NoRet
     ELSE /\ last' = Call("get", Some(id), None, FALSE)
          /\ ret' = [NoRet EXCEPT !.val = Some(get(nodes, id))]
  /\ UNCHANGED <<nodes, root, issued>>

\* ------------------------------------------------------------ Tree::parent
Parent(id) ==
  /\ IF node_faults(nodes, id)
     THEN last' = Call("parent", Some(id), None, TRUE) /\ ret' = NoRet
     ELSE /\ last' = Call("parent", Some(id), None, FALSE)
          /\ ret' = [NoRet EXCEPT !.id = parent(nodes, id)]
  /\ UNCHANGED <<nodes, root, issued>>

\* ---------------------------------------------------------- Tree::children
\* the iterator, collected by the caller
Children(id) ==
  /\ IF node_faults(nodes, id)
     THEN last' = Call("children", Some(id), None, TRUE) /\ ret' = NoRet
     ELSE /\ last' = Call("children", Some(id), None, FALSE)
          /\ ret' = [NoRet EXCEPT !.seq = children(nodes, id)]
  /\ UNCHANGED <<nodes, root, issued>>

\* ----------------------------------------------------------- Tree::dfs_rec
RECURSIVE dfs_rec(_, _), dfs_children(_, _, _)

\* mutant: the node is pushed after its children (post-order)
dfs_rec_postorder(ns, id) == dfs_children(ns, children(ns, id), 1) \o << id >>

\* out.push(id); for &child in &self.node(id).children { dfs_rec(child) }
dfs_rec(ns, id) == << id >> \o dfs_children(ns, children(ns, id), 1)

\* the for loop of dfs_rec from its i-th iteration on
dfs_children(ns, ch, i) ==
  IF i > Len(ch) THEN << >>
  ELSE dfs_rec(ns, ch[i]) \o dfs_children(ns, ch, i + 1)

\* --------------------------------------------------------------- Tree::dfs
dfs(ns, r) == IF is_some(r) THEN dfs_rec(ns, unwrap(r)) ELSE << >>

\* --------------------------------------------------------------- Tree::bfs
RECURSIVE bfs_loop(_, _, _)

\* mutant: pop_back instead of pop_front
bfs_loop_lifo(ns, queue, result) ==
  IF queue = << >> THEN result
  ELSE LET id == queue[Len(queue)] IN
       bfs_loop(ns, SubSeq(queue, 1, Len(queue) - 1) \o children(ns, id),
                Append(result, id))

\* while let Some(id) = queue.pop_front() { result.push(id); push children }
bfs_loop(ns, queue, result) ==
  IF queue = << >> THEN result
  ELSE LET id == Head(queue) IN
       bfs_loop(ns, Tail(queue) \o children(ns, id), Append(result, id))

bfs(ns, r) == IF is_some(r) THEN bfs_loop(ns, << unwrap(r) >>, << >>) ELSE << >>

Dfs ==
  /\ last' = Call("dfs", None, None, FALSE)
  /\ ret' = [NoRet EXCEPT !.seq = dfs(nodes, root)]
  /\ UNCHANGED <<nodes, root, issued>>

Bfs ==
  /\ last' = Call("bfs", None, None, FALSE)
  /\ ret' = [NoRet EXCEPT !.seq = bfs(nodes, root)]
  /\ UNCHANGED <<nodes, root, issued>>

\* ----------------------------------------------------------- Tree::fmt_rec
\* the label closure of the callers (|s| s.to_string(), |s| s.clone())
label(d) == d

\* mutant: the empty prefix is not tested
connector_always(prefix, is_last) == IF is_last THEN ConnLast ELSE ConnMid

\* if prefix.is_empty() { "" } else if last { "└── " } else { "├── " }
connector(prefix, is_last) ==
  IF prefix = << >> THEN << >> ELSE IF is_last THEN ConnLast ELSE ConnMid

\* if prefix.is_empty() { String::new() } else if last { prefix + 4 spaces }
\* else { prefix + bar + 3 spaces }
new_prefix(prefix, is_last) ==
  IF prefix = << >> THEN << >>
  ELSE IF is_last THEN prefix \o PadLast ELSE prefix \o PadMid

\* let is_last = i + 1 == ch.len(), with i counted from 1 here
is_last_child(i, ch) == i = Len(ch)

\* what one call appends to `out`, and the payloads `label` was called on
Emit(out, calls) == [out |-> out, calls |-> calls]

Join(a, b) == Emit(a.out \o b.out, a.calls \o b.calls)

RECURSIVE fmt_rec(_, _, _, _), fmt_children(_, _, _, _)

\* mutant: out.push('\n') is missing
fmt_rec_no_newline(ns, id, prefix, is_last) ==
  Join(Emit(prefix \o connector(prefix, is_last) \o label(get(ns, id)), << id >>),
       fmt_children(ns, children(ns, id), 1, new_prefix(prefix, is_last)))

fmt_rec(ns, id, prefix, is_last) ==
  Join(Emit(prefix \o connector(prefix, is_last) \o label(get(ns, id)) \o << Newline >>,
            << id >>),
       fmt_children(ns, children(ns, id), 1, new_prefix(prefix, is_last)))

\* the for loop of fmt_rec from its i-th iteration on
fmt_children(ns, ch, i, np) ==
  IF i > Len(ch) THEN Emit(<< >>, << >>)
  ELSE Join(fmt_rec(ns, ch[i], np, is_last_child(i, ch)),
            fmt_children(ns, ch, i + 1, np))

\* ---------------------------------------------------------- Tree::fmt_tree
\* mutant: a tree without root is rendered as one empty line
fmt_tree_blank(ns, r) ==
  IF is_some(r) THEN fmt_rec(ns, unwrap(r), << >>, TRUE)
  ELSE Emit(<< Newline >>, << >>)

fmt_tree(ns, r) ==
  IF is_some(r) THEN fmt_rec(ns, unwrap(r), << >>, TRUE) ELSE Emit(<< >>, << >>)

FmtTree ==
  /\ last' = Call("fmt_tree", None, None, FALSE)
  /\ ret' = LET f == fmt_tree(nodes, root) IN
            [NoRet EXCEPT !.out = f.out, !.calls = f.calls]
  /\ UNCHANGED <<nodes, root, issued>>

\* ------------------------------------------------------------------- Next
Next ==
  \/ \E v \in Values : SetRoot(v) /\ UNCHANGED walk
  \/ \E p \in Handles, v \in Values :
        len(nodes) < MaxNodes /\ AddChild(p, v) /\ UNCHANGED walk
  \/ \E id \in Handles, v \in Values : GetMut(id, v) /\ UNCHANGED walk
  \/ \E id \in Handles : Get(id) /\ UNCHANGED walk
  \/ \E id \in Handles : Parent(id) /\ UNCHANGED walk
  \/ \E id \in Handles : Children(id) /\ UNCHANGED walk
  \/ Dfs /\ UNCHANGED walk
  \/ Bfs /\ UNCHANGED walk
  \/ FmtTree /\ UNCHANGED walk

Spec == Init /\ [][Next]_vars

\* ------------------------------------------------- tests::build_and_print
\* the payloads of the test, in the order of its set_root / add_child calls
TestLabels ==
  << <<"r", "o", "o", "t">>, <<"a">>, <<"a", "1">>, <<"a", "2">>, <<"b">>,
     <<"b", "1">> >>

\* the same operations, the k-th allocation carrying the test's k-th payload
NextTest ==
  \/ SetRoot(TestLabels[1]) /\ UNCHANGED walk
  \/ \E p \in 0 .. Len(TestLabels) :
        /\ len(nodes) < Len(TestLabels)
        /\ AddChild(p, TestLabels[len(nodes) + 1])
        /\ UNCHANGED walk
  \/ \E id \in 0 .. Len(TestLabels) : Get(id) /\ UNCHANGED walk
  \/ Dfs /\ UNCHANGED walk
  \/ FmtTree /\ UNCHANGED walk

SpecTest == Init /\ [][NextTest]_vars

\* ------------------------------------------- pathfinder_app: main.rs
\* A path is the sequence of its components, << >> being the filesystem
\* root "/"; every component is one character long.  The walk is started on
\* one of ArgPaths, and below that path the filesystem holds at most the
\* entries of Rel, written relative to it.
Slash == "/"

ArgPaths == { << >>, <<"d">> }

Rel == { << >>, <<"x">>, <<"y">>, <<"x", "z">> }

RelParent(r) == SubSeq(r, 1, Len(r) - 1)

\* the paths that exist when `dirs` are the directories
Existing(dirs) == { r \in Rel : r = << >> \/ RelParent(r) \in dirs }

\* The filesystems the walk can meet: which paths are directories, for which
\* paths the metadata cannot be read (the path is missing, or lies behind a
\* directory that may not be searched), which directories cannot be listed,
\* and at which entries the listing of the parent directory reports an error.
FileSystems ==
  { f \in [arg : ArgPaths,
           dirs : { { }, { << >> }, { << >>, <<"x">> } },
           nostat : SUBSET Rel, nolist : SUBSET Rel, badentry : SUBSET Rel] :
      /\ f.nostat \subseteq Existing(f.dirs)
      /\ f.nolist \subseteq f.dirs
      /\ f.badentry \subseteq Existing(f.dirs) \ { << >> } }

\* Path::is_dir: false when the metadata of the path cannot be read
is_dir(fs, r) == r \in fs.dirs /\ r \notin fs.nostat

\* the entries fs::read_dir yields for directory r
entries(fs, r) == { c \in Existing(fs.dirs) : c # << >> /\ RelParent(c) = r }

\* the orders in which a listing can yield the entries S
Orders(S) ==
  { o \in [1 .. Cardinality(S) -> S] :
      \A i, j \in 1 .. Cardinality(S) : o[i] = o[j] => i = j }

\* Path::file_name
file_name(p) == IF p = << >> THEN None ELSE Some(<<p[Len(p)]>>)

RECURSIVE DisplayRec(_)
DisplayRec(p) ==
  IF p = << >> THEN << >> ELSE <<Slash, Head(p)>> \o DisplayRec(Tail(p))

\* Path::display().to_string()
display(p) == IF p = << >> THEN <<Slash>> ELSE DisplayRec(p)

\* the display name of the entry r of the walk
name(fs, r) ==
  LET path == fs.arg \o r
      f == file_name(path)
  IN  IF is_some(f) THEN unwrap(f) ELSE display(path)

\* where a call of build_tree_from_path that returns Ok continues
Returned(stack) == IF stack = << >> THEN "ok" ELSE "loop"

\* main up to the call build_tree_from_path(&mut tree, &args.path, None)
InitWalk ==
  /\ nodes = << >>
  /\ root = None
  /\ issued = << >>
  /\ last = Call("new", None, None, FALSE)
  /\ ret = NoRet
  /\ \E f \in FileSystems :
       walk = [pc |-> "call", fs |-> f,
               arg |-> [path |-> << >>, parent |-> None],
               stack |-> << >>, visited |-> { }, errlen |-> 0]

\* build_tree_from_path from its entry to the first directory entry: the
\* name, the node, is_dir and read_dir
BuildTreeFromPath ==
  /\ walk.pc = "call"
  /\ LET fs == walk.fs
         r == walk.arg.path
     IN  /\ IF is_none(walk.arg.parent)
            THEN SetRoot(name(fs, r))
            ELSE AddChild(unwrap(walk.arg.parent), name(fs, r))
         /\ IF last'.fault
            THEN walk' = [walk EXCEPT !.pc = "panic"]
            ELSE LET node_id == unwrap(ret'.id)
                     seen == walk.visited \cup { r }
                 IN  IF ~ is_dir(fs, r)
                     THEN walk' = [walk EXCEPT !.pc = Returned(walk.stack),
                                               !.visited = seen]
                     ELSE IF r \in fs.nolist
                     THEN \* fs::read_dir(path)? returns the error
                          walk' = [walk EXCEPT !.pc = "err",
                                               !.stack = << >>,
                                               !.visited = seen,
                                               !.errlen = len(nodes')]
                     ELSE \E order \in Orders(entries(fs, r)) :
                            walk' = [walk EXCEPT
                                       !.pc = "loop",
                                       !.stack = Append(@, [node |-> node_id,
                                                            entries |-> order]),
                                       !.visited = seen]

\* one turn of `for entry in fs::read_dir(path)?`: the loop ends and the
\* call returns Ok(node_id), or `entry?` returns the error, or the walk
\* calls itself on the entry
ForEntry ==
  /\ walk.pc = "loop"
  /\ LET top == walk.stack[Len(walk.stack)]
         rest == SubSeq(walk.stack, 1, Len(walk.stack) - 1)
     IN  IF top.entries = << >>
         THEN walk' = [walk EXCEPT !.stack = rest, !.pc = Returned(rest)]
         ELSE LET e == Head(top.entries) IN
              IF e \in walk.fs.badentry
              THEN walk' = [walk EXCEPT !.pc = "err", !.stack = << >>,
                                        !.errlen = len(nodes)]
              ELSE walk' = [walk EXCEPT
                              !.pc = "call",
                              !.arg = [path |-> e, parent |-> Some(top.node)],
                              !.stack = Append(rest,
                                          [top EXCEPT !.entries = Tail(@)])]
  /\ UNCHANGED vars

\* main after a successful walk: println!("{}", tree.fmt_tree(..))
MainPrint ==
  /\ walk.pc = "ok"
  /\ FmtTree
  /\ walk' = [walk EXCEPT !.pc = "printed"]

\* main after a failed walk: `?` returns the error, nothing is printed
MainFail ==
  /\ walk.pc = "err"
  /\ walk' = [walk EXCEPT !.pc = "failed"]
  /\ UNCHANGED vars

NextWalk ==
  \/ BuildTreeFromPath
  \/ ForEntry
  \/ MainPrint
  \/ MainFail

SpecWalk == InitWalk /\ [][NextWalk]_wvars

\* ======================================================================
\* Vocabulary of the properties
\* ======================================================================

\* the handles returned so far, in the order they were returned
IssuedSet == { issued[k].ret : k \in 1 .. Len(issued) }

IssuedPos(h) == CHOOSE k \in 1 .. Len(issued) : issued[k].ret = h

\* position of x in a duplicate-free sequence that holds it
Pos(s, x) == CHOOSE i \in 1 .. Len(s) : s[i] = x

Count(s, x) == Cardinality({ i \in 1 .. Len(s) : s[i] = x })

IsRoot(h) == root = Some(h)

\* proper ancestors of h along the parent links, at most `fuel` of them
RECURSIVE AncestorsUpTo(_, _)

AncestorsUpTo(h, fuel) ==
  IF fuel = 0 \/ is_none(parent(nodes, h)) THEN { }
  ELSE LET p == unwrap(parent(nodes, h)) IN { p } \cup AncestorsUpTo(p, fuel - 1)

Ancestors(h) == AncestorsUpTo(h, len(nodes))

Depth(h) == Cardinality(Ancestors(h))

Subtree(h) == { g \in IssuedSet : g = h \/ h \in Ancestors(g) }

SameParent(g, h) == parent(nodes, g) = parent(nodes, h)

\* h is the child its parent received last
IsLastSibling(h) ==
  \A g \in IssuedSet : SameParent(g, h) => IssuedPos(g) <= IssuedPos(h)

EndsWith(s, t) ==
  Len(t) <= Len(s) /\ SubSeq(s, Len(s) - Len(t) + 1, Len(s)) = t

StartsWith(s, t) == Len(t) <= Len(s) /\ SubSeq(s, 1, Len(t)) = t

\* the newline-terminated lines of a text, without their newlines
RECURSIVE LinesFrom(_, _, _)

LinesFrom(text, i, cur) ==
  IF i > Len(text) THEN << >>
  ELSE IF text[i] = Newline
       THEN << cur >> \o LinesFrom(text, i + 1, << >>)
       ELSE LinesFrom(text, i + 1, Append(cur, text[i]))

Lines(text) == LinesFrom(text, 1, << >>)

\* the connector the `tree` listing gives a non-root node
ExpectedConnector(h) == IF IsLastSibling(h) THEN ConnLast ELSE ConnMid

\* the indentation the `tree` listing gives a non-root node: one segment per
\* non-root proper ancestor, from the shallowest to the deepest
RECURSIVE ExpectedIndent(_)

ExpectedIndent(h) ==
  LET p == unwrap(parent(nodes, h)) IN
  IF IsRoot(p) THEN << >>
  ELSE ExpectedIndent(p) \o (IF IsLastSibling(p) THEN PadLast ELSE PadMid)

\* a rendered line without its label and, if it has one, without its connector
StripEnd(s, t) == IF EndsWith(s, t) THEN SubSeq(s, 1, Len(s) - Len(t)) ELSE s

IndentOf(line, lab) ==
  LET a == StripEnd(line, lab) IN StripEnd(StripEnd(a, ConnLast), ConnMid)

Rendered == last.op = "fmt_tree" /\ ~ last.fault

\* ======================================================================
\* Properties
\* ======================================================================

\* C1: in the text of fmt_tree the root's line is its label with no
\* connector, and the line of every non-root node, the direct children of the
\* root included, ends with its branch connector followed by its label: the
\* last-child connector when the node is its parent's last child in insertion
\* order, the mid-child connector otherwise.
C1_ConnectorBeforeLabel ==
  Rendered /\ is_some(root) =>
    LET order == dfs(nodes, root)
        lines == Lines(ret.out)
    IN /\ Len(lines) = Len(order)
       /\ \A i \in 1 .. Len(order) :
            LET h == order[i]
                lab == label(get(nodes, h))
            IN IF IsRoot(h) THEN lines[i] = lab
               ELSE EndsWith(lines[i], ExpectedConnector(h) \o lab)

\* C2: in the text of fmt_tree the indentation of a non-root node (what
\* precedes its connector) is the concatenation, from the shallowest to the
\* deepest non-root proper ancestor, of four spaces for an ancestor that is a
\* last child and of a bar and three spaces for one that is not: empty for a
\* child of the root, depth-1 segments of four characters in general.
C2_Indentation ==
  Rendered /\ is_some(root) =>
    LET order == dfs(nodes, root)
        lines == Lines(ret.out)
    IN /\ Len(lines) = Len(order)
       /\ \A i \in 1 .. Len(order) :
            LET h == order[i]
                ind == IndentOf(lines[i], label(get(nodes, h)))
            IN ~ IsRoot(h) =>
                 /\ ind = ExpectedIndent(h)
                 /\ Len(ind) = 4 * (Depth(h) - 1)

\* the tree of tests::build_and_print: root, a, a1, a2 under a, b, b1 under b
IsTestTree ==
  /\ len(nodes) = 6
  /\ \A k \in 1 .. 6 : get(nodes, k - 1) = TestLabels[k]
  /\ << parent(nodes, 0), parent(nodes, 1), parent(nodes, 2),
        parent(nodes, 3), parent(nodes, 4), parent(nodes, 5) >>
     = << None, Some(0), Some(1), Some(1), Some(0), Some(4) >>

TestRendering ==
  TestLabels[1] \o << Newline >>
  \o ConnMid \o TestLabels[2] \o << Newline >>
  \o PadMid \o ConnMid \o TestLabels[3] \o << Newline >>
  \o PadMid \o ConnLast \o TestLabels[4] \o << Newline >>
  \o ConnLast \o TestLabels[5] \o << Newline >>
  \o PadLast \o ConnLast \o TestLabels[6] \o << Newline >>

\* C3: for the tree of tests::build_and_print, fmt_tree with the identity
\* label returns exactly the six lines of the `tree` listing, each ended by a
\* newline.
C3_TestRendering == Rendered /\ IsTestTree => ret.out = TestRendering

\* the scenario of C3 is reached: the test's tree has been rendered
C3_Reached == Rendered /\ IsTestTree

\* ---------------------------------------------------------------- C4, C5
Permutes(s) ==
  /\ Len(s) = Cardinality(IssuedSet)
  /\ \A h \in IssuedSet : Count(s, h) = 1

\* C4: on a tree with a root, dfs() returns a sequence that starts with the
\* root, holds every allocated handle exactly once, places every node after
\* all its ancestors, lists the whole subtree of a child before the next
\* sibling and orders siblings by insertion; nothing but the parent links and
\* the order of the calls decides it.
C4_DfsPreOrder ==
  last.op = "dfs" /\ is_some(root) =>
    LET s == ret.seq IN
    /\ Permutes(s)
    /\ s[1] = unwrap(root)
    /\ \A h \in IssuedSet : \A a \in Ancestors(h) : Pos(s, a) < Pos(s, h)
    /\ \A g, h \in IssuedSet :
         g # h /\ SameParent(g, h) /\ IssuedPos(g) < IssuedPos(h) =>
           \A d \in Subtree(g) : Pos(s, d) < Pos(s, h)

\* dfs() has returned an order that is not the order of allocation
C4_Reached == last.op = "dfs" /\ ret.seq = << 0, 1, 3, 2, 4 >>

\* C5: on a tree with a root, bfs() returns a sequence that starts with the
\* root, holds every allocated handle exactly once, has non-decreasing depth,
\* and within one depth lists the nodes grouped by parent, the parents in the
\* order they were emitted and siblings in insertion order.
C5_BfsLevelOrder ==
  last.op = "bfs" /\ is_some(root) =>
    LET s == ret.seq IN
    /\ Permutes(s)
    /\ s[1] = unwrap(root)
    /\ \A i \in 1 .. Len(s) - 1 : Depth(s[i]) <= Depth(s[i + 1])
    /\ \A g, h \in IssuedSet :
         g # h /\ ~ IsRoot(g) /\ ~ IsRoot(h) /\ Depth(g) = Depth(h) =>
           (Pos(s, g) < Pos(s, h)
              <=> IF SameParent(g, h) THEN IssuedPos(g) < IssuedPos(h)
                  ELSE Pos(s, unwrap(parent(nodes, g)))
                         < Pos(s, unwrap(parent(nodes, h))))

\* bfs() has returned two grandchildren in the order of their parents, which
\* is not the order in which they were added
C5_Reached == last.op = "bfs" /\ ret.seq = << 0, 1, 2, 4, 3 >>

\* -------------------------------------------------------------------- C6
\* C6: fmt_tree emits one newline-terminated line per node, the i-th line
\* being the line of the i-th handle of dfs(), and calls the label function
\* once per node.
C6_OneLinePerNodeInDfsOrder ==
  Rendered =>
    LET order == dfs(nodes, root)
        lines == Lines(ret.out)
    IN /\ Count(ret.out, Newline) = len(nodes)
       /\ ret.out # << >> => ret.out[Len(ret.out)] = Newline
       /\ Len(lines) = Len(order)
       /\ \A i \in 1 .. Len(order) :
            EndsWith(lines[i], label(get(nodes, order[i])))
       /\ Len(ret.calls) = len(nodes)
       /\ \A h \in IssuedSet : Count(ret.calls, h) = 1
       /\ ret.calls = order

\* a tree whose pre-order differs from its order of allocation was rendered
C6_Reached ==
  /\ Rendered
  /\ dfs(nodes, root) = << 0, 1, 3, 2, 4 >>
  /\ get(nodes, 3) # get(nodes, 2)

\* -------------------------------------------------------------------- C7
\* C7: every handle other than the root has a parent handle that refers to a
\* live slot, and occurs exactly once in the children of that parent; every
\* handle listed in children(p) has parent p.
C7_ParentChildConsistent ==
  /\ \A h \in IssuedSet :
       ~ IsRoot(h) =>
         /\ is_some(parent(nodes, h))
         /\ assert_exists(nodes, unwrap(parent(nodes, h)))
         /\ Count(children(nodes, unwrap(parent(nodes, h))), h) = 1
  /\ \A p \in IssuedSet :
       \A i \in 1 .. Len(children(nodes, p)) :
         LET c == children(nodes, p)[i] IN
         assert_exists(nodes, c) /\ parent(nodes, c) = Some(p)

\* a payload was written in a tree with siblings and a grandchild
C7_Reached ==
  /\ last.op = "get_mut" /\ ~ last.fault
  /\ Len(children(nodes, 0)) >= 2
  /\ \E h \in IssuedSet : Depth(h) >= 2

\* -------------------------------------------------------------------- C8
ChildLinks(p) == { children(nodes, p)[i] : i \in 1 .. Len(children(nodes, p)) }

\* the handles reached from a set by following child links `fuel` times
RECURSIVE ReachFrom(_, _)

ReachFrom(S, fuel) ==
  IF fuel = 0 THEN S
  ELSE ReachFrom(S \cup UNION { ChildLinks(p) : p \in S }, fuel - 1)

\* following parent links from h reaches the root in at most `fuel` steps
RECURSIVE ClimbsToRoot(_, _)

ClimbsToRoot(h, fuel) ==
  IF IsRoot(h) THEN TRUE
  ELSE IF fuel = 0 \/ is_none(parent(nodes, h)) THEN FALSE
       ELSE ClimbsToRoot(unwrap(parent(nodes, h)), fuel - 1)

\* the number of child links of the whole arena
RECURSIVE LinkCount(_)

LinkCount(k) ==
  IF k = 0 THEN 0 ELSE Len(children(nodes, k - 1)) + LinkCount(k - 1)

\* C8: the tree is acyclic and connected: every allocated node is reached
\* from the root by child links, the parent links of every node lead to the
\* root in at most as many steps as there are nodes, the root is the only
\* node without a parent, and there are no more child links than a tree has.
C8_AcyclicConnected ==
  IssuedSet # { } =>
    /\ is_some(root)
    /\ IssuedSet \subseteq ReachFrom({ unwrap(root) }, len(nodes))
    /\ LinkCount(len(nodes)) = len(nodes) - 1
    /\ \A h \in IssuedSet :
         /\ ClimbsToRoot(h, len(nodes))
         /\ is_none(parent(nodes, h)) <=> IsRoot(h)

\* a chain of three links below the root, beside a second child of the root
C8_Reached ==
  /\ \E h \in IssuedSet : Depth(h) = 3
  /\ Len(children(nodes, 0)) = 2

\* -------------------------------------------------------------------- C9
\* C9: a returned handle stays valid and keeps its node: in every step its
\* slot stays live, its parent is unchanged, its payload changes only by a
\* get_mut on that handle, its children keep their positions, and a handle
\* returned by set_root or add_child is none of those returned before.
C9_HandlesStable ==
  [][ /\ nodes' # nodes =>
           \A h \in IssuedSet :
             /\ assert_exists(nodes', h)
             /\ parent(nodes', h) = parent(nodes, h)
             /\ get(nodes', h) # get(nodes, h) =>
                  last' = Call("get_mut", Some(h), Some(get(nodes', h)), FALSE)
             /\ StartsWith(children(nodes', h), children(nodes, h))
      /\ last'.op \in { "set_root", "add_child" } /\ ~ last'.fault =>
           /\ is_some(ret'.id)
           /\ unwrap(ret'.id) \notin IssuedSet
           /\ assert_exists(nodes', unwrap(ret'.id))
    ]_vars

\* a child was added to a node that already had two children, one of them
\* with a child of its own
C9_Reached ==
  /\ last.op = "add_child" /\ ~ last.fault
  /\ Len(children(nodes, unwrap(last.id))) = 3
  /\ \E h \in IssuedSet : Depth(h) = Depth(unwrap(ret.id)) + 1

\* ------------------------------------------------------------------- C10
AddedSet == { issued[k].ret : k \in { j \in 1 .. Len(issued) : issued[j].op = "add_child" } }

\* what add_child(p, v) promises of the handle c it returns
AddChildPost(ns, c, p, v) ==
  parent(ns, c) = Some(p) /\ get(ns, c) = v /\ children(ns, c) = << >>

\* C10 as claimed: the handle c returned by add_child(p, v) has parent p,
\* payload v and no children, and keeps all three through every later step.
C10_AsClaimed ==
  [][ /\ last'.op = "add_child" /\ ~ last'.fault =>
           AddChildPost(nodes', unwrap(ret'.id), unwrap(last'.id), unwrap(last'.val))
      /\ nodes' # nodes =>
           \A c \in AddedSet : \A p \in Handles, v \in Values :
             AddChildPost(nodes, c, p, v) => AddChildPost(nodes', c, p, v)
    ]_vars

\* C10 (amended): the handle c returned by add_child(p, v) has parent p,
\* payload v and no children when the call returns; later steps keep its
\* parent, change its payload only by a get_mut on c and its children only by
\* an add_child to c.
C10_AddChildPost ==
  [][ /\ last'.op = "add_child" /\ ~ last'.fault =>
           AddChildPost(nodes', unwrap(ret'.id), unwrap(last'.id), unwrap(last'.val))
      /\ nodes' # nodes =>
           \A c \in AddedSet :
             /\ parent(nodes', c) = parent(nodes, c)
             /\ get(nodes', c) # get(nodes, c) =>
                  last' = Call("get_mut", Some(c), Some(get(nodes', c)), FALSE)
             /\ children(nodes', c) # children(nodes, c) =>
                  /\ last'.op = "add_child" /\ ~ last'.fault /\ last'.id = Some(c)
                  /\ children(nodes', c) = Append(children(nodes, c), unwrap(ret'.id))
    ]_vars

\* a handle returned by add_child has since received a child and a new payload
C10_Reached ==
  /\ last.op = "get_mut" /\ ~ last.fault
  /\ unwrap(last.id) \in AddedSet
  /\ children(nodes, unwrap(last.id)) # << >>

\* ------------------------------------------------------------------- C11
\* the handles of the slots of the arena
Slots == 0 .. len(nodes) - 1

\* C11: a write through get_mut(h) makes get(h) return the written value and
\* changes nothing else: the other payloads, every parent link, every
\* children list, the root handle and the number of slots are as before, and
\* so are dfs() and bfs(); a get(h) that follows returns the written value.
C11_GetMutFrame ==
  [][ /\ last'.op = "get_mut" /\ ~ last'.fault =>
           LET h == unwrap(last'.id) IN
           /\ get(nodes', h) = unwrap(last'.val)
           /\ len(nodes') = len(nodes)
           /\ root' = root
           /\ \A g \in Slots :
                /\ is_some(slot(nodes', g))
                /\ parent(nodes', g) = parent(nodes, g)
                /\ children(nodes', g) = children(nodes, g)
                /\ g # h => get(nodes', g) = get(nodes, g)
           /\ dfs(nodes', root') = dfs(nodes, root)
           /\ bfs(nodes', root') = bfs(nodes, root)
      /\ /\ last.op = "get_mut" /\ ~ last.fault
         /\ last'.op = "get" /\ last'.id = last.id
         => ~ last'.fault /\ ret'.val = last.val
    ]_vars

\* a payload was rewritten in a tree whose two traversals differ, next to a
\* node that keeps another payload
C11_Reached ==
  /\ last.op = "get_mut" /\ ~ last.fault
  /\ dfs(nodes, root) # bfs(nodes, root)
  /\ \E g \in Slots : get(nodes, g) # unwrap(last.val)

\* ------------------------------------------------------------------- C12
\* C12: set_root on a tree that has a root is a fatal fault in every state,
\* and nothing has changed when it faults: no slot is allocated, the root
\* handle, the payloads, the parents and the children lists are as before.
C12_SetRootTwiceFaults ==
  [][ last'.op = "set_root" /\ is_some(root) =>
        /\ last'.fault
        /\ ret' = NoRet
        /\ nodes' = nodes /\ root' = root /\ issued' = issued
    ]_vars

\* set_root has faulted on a tree of three nodes
C12_Reached == last.op = "set_root" /\ last.fault /\ len(nodes) = 3

\* ------------------------------------------------------------------- C13
HandleOps == { "get", "get_mut", "parent", "children", "add_child" }

\* the index is below the slot count and its slot holds a node
LiveHandle(id) == id < Len(nodes) /\ Len(nodes[id + 1]) = 1

\* C13: every operation that takes a handle faults when the index of the
\* handle is not a live slot (the empty tree included), and leaves the tree as
\* it was: add_child allocates no slot and appends to no children list.
C13_InvalidHandleFaults ==
  [][ last'.op \in HandleOps /\ ~ LiveHandle(unwrap(last'.id)) =>
        /\ last'.fault
        /\ ret' = NoRet
        /\ nodes' = nodes /\ root' = root /\ issued' = issued
    ]_vars

\* add_child has faulted on a tree of three nodes for an index out of range
C13_Reached ==
  /\ last.op = "add_child" /\ last.fault
  /\ len(nodes) = 3 /\ unwrap(last.id) >= 3

\* ------------------------------------------------------------------- C14
\* C14: on a tree on which set_root was never called dfs() and bfs() return
\* empty sequences and fmt_tree returns the empty string, without a call of
\* the label function and without fault.
C14_EmptyTree ==
  issued = << >> /\ last.op \in { "dfs", "bfs", "fmt_tree" } =>
    /\ ~ last.fault
    /\ ret.seq = << >>
    /\ ret.out = << >>
    /\ ret.calls = << >>

\* the tree without root has been rendered
C14_Reached == issued = << >> /\ last.op = "fmt_tree"

\* ------------------------------------------------------------------- C15
\* C15: on a tree that holds only a root, dfs() and bfs() return the one
\* handle set_root returned, and fmt_tree returns the label of the root
\* followed by one newline.
C15_RootOnly ==
  Len(issued) = 1 /\ issued[1].op = "set_root" =>
    /\ last.op \in { "dfs", "bfs" } => ret.seq = << issued[1].ret >>
    /\ last.op = "fmt_tree" =>
         ret.out = label(get(nodes, issued[1].ret)) \o << Newline >>

\* a root whose payload is the two-character one has been rendered alone
C15_Reached ==
  /\ Len(issued) = 1 /\ last.op = "fmt_tree"
  /\ Len(get(nodes, 0)) = 2

\* ------------------------------------------------------------------- C16
\* the walk has returned Ok to main
WalkSucceeded == walk.pc \in { "ok", "printed" }

\* the walk has returned Err to main
WalkFailed == walk.pc \in { "err", "failed" }

\* path r could be read in every way the walk needs
Accessible(fs, r) ==
  r \notin fs.nostat /\ r \notin fs.nolist /\ r \notin fs.badentry

\* C16: in build_tree_from_path every path that cannot be accessed or listed
\* makes the walk return an error: a walk that returned success met no
\* inaccessible path and holds a node for every entry of every directory it
\* visited; a failed walk added no node after its first error; and main has
\* rendered the tree only after a successful walk.
C16_WalkPropagatesErrors ==
  /\ WalkSucceeded => \A r \in walk.visited : Accessible(walk.fs, r)
  /\ WalkSucceeded =>
       \A r \in walk.visited :
         r \in walk.fs.dirs => entries(walk.fs, r) \subseteq walk.visited
  /\ WalkFailed => len(nodes) = walk.errlen
  /\ last.op = "fmt_tree" => walk.pc = "printed"

\* what holds of the failing walks: no node after the first error and no
\* rendering
C16_FailedWalkStops ==
  /\ WalkFailed => len(nodes) = walk.errlen /\ last.op # "fmt_tree"
  /\ last.op = "fmt_tree" => walk.pc = "printed"

\* ------------------------------------------------------------------- C17
\* the handles whose parent link is p, in the order they were issued
RECURSIVE ChildrenByIssue(_, _, _, _)

ChildrenByIssue(ns, iss, p, k) ==
  IF k > Len(iss) THEN << >>
  ELSE (IF parent(ns, iss[k].ret) = Some(p) THEN << iss[k].ret >>
        ELSE << >>) \o ChildrenByIssue(ns, iss, p, k + 1)

\* C17: add_child(p, v) appends the new handle at the end of the children of
\* p and changes nothing else (the earlier children of p, the children of
\* every other node, every parent link, every payload, the root); so the
\* children of a node are in the order of the add_child calls that made them,
\* and children(p) returns that same sequence whenever it is called.
C17_AddChildAppends ==
  [][ /\ last'.op = "add_child" /\ ~ last'.fault =>
           LET p == unwrap(last'.id)
               c == unwrap(ret'.id)
           IN /\ children(nodes', p) = Append(children(nodes, p), c)
              /\ root' = root
              /\ len(nodes') = len(nodes) + 1
              /\ \A g \in Slots :
                   /\ get(nodes', g) = get(nodes, g)
                   /\ parent(nodes', g) = parent(nodes, g)
                   /\ g # p => children(nodes', g) = children(nodes, g)
              /\ \A g \in Slots :
                   children(nodes', g) = ChildrenByIssue(nodes', issued', g, 1)
      /\ last'.op = "children" /\ ~ last'.fault =>
           ret'.seq = ChildrenByIssue(nodes', issued', unwrap(last'.id), 1)
    ]_vars

\* a third child was appended to a node whose first child has a child
C17_Reached ==
  /\ last.op = "add_child" /\ ~ last.fault
  /\ Len(children(nodes, unwrap(last.id))) = 3
  /\ children(nodes, children(nodes, unwrap(last.id))[1]) # << >>

\* ------------------------------------------------------------------- C18
\* C18: the root handle is present exactly when the arena has a slot, and it
\* is the handle of index 0; add_child on an arena without slots faults, so
\* no node is allocated before the root.
C18_RootIsSlotZero ==
  /\ is_some(root) <=> len(nodes) >= 1
  /\ is_some(root) => unwrap(root) = 0 /\ issued[1] = [op |-> "set_root", ret |-> 0]
  /\ last.op = "add_child" /\ len(nodes) = 0 => last.fault

\* add_child has faulted on the arena without slots
C18_Reached == last.op = "add_child" /\ len(nodes) = 0 /\ is_none(root)

\* ------------------------------------------------------------------- C19
\* C19: the index of a node's parent is smaller than the node's own index and
\* every children list is strictly increasing, so the parent links of a node
\* lead through strictly decreasing indices to index 0.
C19_IndicesIncrease ==
  \A h \in Slots :
    /\ is_some(parent(nodes, h)) => unwrap(parent(nodes, h)) < h
    /\ \A i \in 1 .. Len(children(nodes, h)) - 1 :
         children(nodes, h)[i] < children(nodes, h)[i + 1]
    /\ \A i \in 1 .. Len(children(nodes, h)) : h < children(nodes, h)[i]
    /\ h # 0 => 0 \in Ancestors(h) /\ \A a \in Ancestors(h) : a < h

\* a node of index 4 at depth 3, in a tree whose root has two children
C19_Reached ==
  /\ len(nodes) = 5 /\ Depth(4) = 3
  /\ Len(children(nodes, 0)) = 2

\* ------------------------------------------------------------------- C20
\* C20: every slot of the arena holds a node; the arena has one slot per
\* successful set_root or add_child and no other (each such call adds one
\* slot, no other step adds or removes one), and the k-th of these calls
\* returned the handle of index k-1, the slot count before it; so a handle is
\* valid exactly when its index is below the slot count, and dfs() and bfs()
\* are as long as the arena.
C20_SlotsAllLive ==
  /\ \A i \in 1 .. Len(nodes) : Len(nodes[i]) = 1
  /\ len(nodes) = Len(issued)
  /\ \A k \in 1 .. Len(issued) : issued[k].ret = k - 1
  /\ last.op \in { "set_root", "add_child" } /\ ~ last.fault =>
       ret.id = Some(len(nodes) - 1)
  /\ \A h \in Handles : assert_exists(nodes, h) <=> h < len(nodes)
  /\ \A h \in Handles : ~ node_faults(nodes, h) <=> h < len(nodes)
  /\ Len(dfs(nodes, root)) = len(nodes)
  /\ Len(bfs(nodes, root)) = len(nodes)

\* the arena has five slots, the last one just returned by add_child
C20_Reached ==
  /\ last.op = "add_child" /\ ~ last.fault
  /\ len(nodes) = 5 /\ ret.id = Some(4)

====
